---- MODULE Spec2Model ----
(***************************************************************************)
(* A model of spinOSplotter.py: the live phase markers (plot_dots), the    *)
(* astrometric overlay (plot_as_data), the radial-velocity overlay         *)
(* (plot_rv_data) and the corner diagram request (plot_corner_diagram).    *)
(*                                                                         *)
(* Units.  Phases handed to plot_dots are counted in quarter periods.      *)
(* Phases of RV observations are counted in hundredths of a period, sky    *)
(* coordinates in mas, ellipse semi-axes in units of 0.05 mas, angles in   *)
(* degrees, the eccentricity in tenths.  All values are integers.          *)
(*                                                                         *)
(* An axis is a record: lines (the Line2D artists, in creation order),     *)
(* collections, containers (errorbar containers), xlim and ylim (the       *)
(* pairs last handed to set_xlim/set_ylim) and mode (the argument of the   *)
(* last axis(...) call).  An artist's identity is its index in the list    *)
(* of its axis; artists are never removed by this module.                  *)
(***************************************************************************)
EXTENDS Integers, Sequences, FiniteSets, TLC

VARIABLES
    system,      \* the orbital model handed to plot_dots / plot_rv_data
    datadict,    \* the observational data: a list of <<key, payload>> items
    mcmcresult,  \* the fit result handed to plot_corner_diagram
    rvax,        \* the RV axis
    asax,        \* the astrometry axis
    rv1dot,      \* the caller's handle of the primary RV marker
    rv2dot,      \* the caller's handle of the secondary RV marker
    asdot,       \* the caller's handle of the sky marker
    phase,       \* the phase argument of the last plot_dots call
    entry,       \* the handle triple passed to the last plot_dots call
    outcome,     \* how the last call ended: "none", "returned" or the error
    afterRaise,  \* some plot_dots call was made after one that raised
    corner       \* the labels and truths handed to corner.corner

vars == <<system, datadict, mcmcresult, rvax, asax, rv1dot, rv2dot, asdot,
          phase, entry, outcome, afterRaise, corner>>

----------------------------------------------------------------------------
(* Bounds of the model *)

\* plot_dots is called with phases 0 .. MaxPhase (quarter periods, so 4 is
\* one full period after 0)
MaxPhase == 3

\* plot_dots is no longer called once an axis holds more than MaxLines lines
MaxLines == 3

\* an astrometric payload holds at most MaxObs observations
MaxObs == 2

\* a radial-velocity payload holds at most MaxRvObs observations
MaxRvObs == 3

\* a fit result declares at most MaxParams parameters
MaxParams == 3

----------------------------------------------------------------------------
(* Python values *)

None == 0

Ok(v) == [ok |-> TRUE, val |-> v]

Raise == [ok |-> FALSE, val |-> 0]

----------------------------------------------------------------------------
(* The axes *)

\* ax.plot(x, y, fmt): one new Line2D appended to the axis' lines
AxPlot(ax, x, y, fmt) ==
    [ax EXCEPT !.lines = Append(@, [xdata |-> x, ydata |-> y, fmt |-> fmt])]

\* line.set_xdata(x); line.set_ydata(y) on the line with identity `dot`
SetData(ax, dot, x, y) ==
    [ax EXCEPT !.lines[dot].xdata = x, !.lines[dot].ydata = y]

\* the margin of the RV axis around the phase range: set_xlim((-0.18, 1.18))
RvAxisMargin == 18

\* the RV axis after setup_rvax (the reference line is left out: nothing
\* modelled here touches it)
RvAxis ==
    [lines |-> <<>>, collections |-> <<>>, containers |-> <<>>,
     xlim |-> <<-RvAxisMargin, 100 + RvAxisMargin>>, ylim |-> <<-50, 50>>,
     mode |-> "none"]

\* the astrometry axis after setup_asax: set_xlim((-10, 10)) then
\* invert_xaxis()
AsAxis ==
    [lines |-> <<>>, collections |-> <<>>, containers |-> <<>>,
     xlim |-> <<10, -10>>, ylim |-> <<-10, 10>>, mode |-> "none"]

----------------------------------------------------------------------------
(* The orbital model (external to the plotter): a system has the            *)
(* semi-amplitudes k1, k2, the apparent size a, and `undefined`, the set of *)
(* <<function, phase>> pairs at which the evaluation fails.                 *)

Phases == 0 .. MaxPhase

ModelFunctions == {"rv1", "rv2", "north", "east"}

\* a wave of period four quarter-phases
Wave(p) ==
    LET r == p % 4
    IN  IF r = 0 THEN 1 ELSE IF r = 2 THEN -1 ELSE 0

Evaluate(sys, f, p, v) ==
    IF <<f, p>> \in sys.undefined THEN Raise ELSE Ok(v)

\* system.primary.radial_velocity_of_phase(phase)
PrimaryRV(sys, p) == Evaluate(sys, "rv1", p, sys.k1 * Wave(p))

\* system.secondary.radial_velocity_of_phase(phase)
SecondaryRV(sys, p) == Evaluate(sys, "rv2", p, -(sys.k2 * Wave(p)))

\* system.relative.north_of_ph(phase)
NorthOfPh(sys, p) == Evaluate(sys, "north", p, sys.a * Wave(p))

\* system.relative.east_of_ph(phase)
EastOfPh(sys, p) == Evaluate(sys, "east", p, sys.a * Wave(p + 1))

Systems ==
    { [k1 |-> 2, k2 |-> 3, a |-> k, undefined |-> u] :
        k \in {4, 5},
        u \in {{}} \cup { {<<f, p>>} : f \in ModelFunctions, p \in Phases } }

----------------------------------------------------------------------------
(* plot_dots *)

\* UpdateDot with the created artist not bound to the handle
UpdateDotDropsHandle(ax, dot, x, y, fmt) ==
    IF dot = None
    THEN [ax |-> AxPlot(ax, x, y, fmt), dot |-> None]
    ELSE [ax |-> SetData(ax, dot, x, y), dot |-> dot]

\* UpdateDot with a new artist plotted on every call
UpdateDotRecreates(ax, dot, x, y, fmt) ==
    [ax |-> AxPlot(ax, x, y, fmt), dot |-> Len(ax.lines) + 1]

\* UpdateDot with set_ydata left out of the reposition branch
UpdateDotKeepsY(ax, dot, x, y, fmt) ==
    IF dot = None
    THEN [ax |-> AxPlot(ax, x, y, fmt), dot |-> Len(ax.lines) + 1]
    ELSE [ax |-> [ax EXCEPT !.lines[dot].xdata = x], dot |-> dot]

\* the `if dot is None: dot, = ax.plot(x, y, fmt) / else: dot.set_xdata(x);
\* dot.set_ydata(y)` block: the axis and the handle after it
UpdateDot(ax, dot, x, y, fmt) ==
    IF dot = None
    THEN [ax |-> AxPlot(ax, x, y, fmt), dot |-> Len(ax.lines) + 1]
    ELSE [ax |-> SetData(ax, dot, x, y), dot |-> dot]

\* plot_dots(rv1dot, rv2dot, asdot, rvax, asax, phase, system): the axes as
\* the call leaves them, whether it raised, and the triple it returns
PlotDots(d1, d2, d3, rax, aax, ph, sys) ==
    LET rv1 == PrimaryRV(sys, ph)
        s1  == UpdateDot(rax, d1, ph, rv1.val, "rx")
        rv2 == SecondaryRV(sys, ph)
        s2  == UpdateDot(s1.ax, d2, ph, rv2.val, "bx")
        N   == NorthOfPh(sys, ph)
        E   == EastOfPh(sys, ph)
        s3  == UpdateDot(aax, d3, E.val, N.val, "ro")
    IN  IF ~rv1.ok THEN
            [raised |-> TRUE, rvax |-> rax, asax |-> aax,
             ret |-> <<d1, d2, d3>>]
        ELSE IF ~rv2.ok THEN
            [raised |-> TRUE, rvax |-> s1.ax, asax |-> aax,
             ret |-> <<d1, d2, d3>>]
        ELSE IF ~N.ok \/ ~E.ok THEN
            [raised |-> TRUE, rvax |-> s2.ax, asax |-> aax,
             ret |-> <<d1, d2, d3>>]
        ELSE
            [raised |-> FALSE, rvax |-> s2.ax, asax |-> s3.ax,
             ret |-> <<s1.dot, s2.dot, s3.dot>>]

\* One phase-scrub event: the session calls plot_dots with the handles it
\* holds and stores the returned triple; when the call raises, the session
\* keeps the handles it had.
PlotDotsCall ==
    /\ Len(rvax.lines) <= MaxLines
    /\ Len(asax.lines) <= MaxLines
    /\ \E ph \in Phases :
         LET r == PlotDots(rv1dot, rv2dot, asdot, rvax, asax, ph, system)
         IN  /\ rvax' = r.rvax
             /\ asax' = r.asax
             /\ rv1dot' = r.ret[1]
             /\ rv2dot' = r.ret[2]
             /\ asdot' = r.ret[3]
             /\ phase' = ph
             /\ entry' = <<rv1dot, rv2dot, asdot>>
             /\ outcome' = IF r.raised THEN "raised" ELSE "returned"
             /\ afterRaise' = (afterRaise \/ outcome = "raised")
    /\ UNCHANGED <<system, datadict, mcmcresult, corner>>

InitDots ==
    /\ system \in Systems
    /\ datadict = <<>>
    /\ mcmcresult = [var_names |-> <<>>, params |-> <<>>]
    /\ rvax = RvAxis
    /\ asax = AsAxis
    /\ rv1dot = None
    /\ rv2dot = None
    /\ asdot = None
    /\ phase = 0
    /\ entry = <<None, None, None>>
    /\ outcome = "none"
    /\ afterRaise = FALSE
    /\ corner = [labels |-> <<>>, truths |-> <<>>]

NextDots == PlotDotsCall

SpecDots == InitDots /\ [][NextDots]_vars

----------------------------------------------------------------------------
(* The observational data: datadict is the list of the dictionary's items  *)
(* in iteration order, each a record [key, data].                          *)

Range(a) == { a[k] : k \in 1 .. Len(a) }

Column(obs, field) == [k \in 1 .. Len(obs) |-> obs[k][field]]

\* one astrometric observation; the semi-axes come in pairs (major, minor)
AsObservations ==
    { [east |-> e, north |-> n, major |-> ax[1], minor |-> ax[2], pa |-> pa] :
        e \in {-3, -1, 1, 3}, n \in {-2, 2},
        ax \in {<<2, 1>>, <<3, 2>>}, pa \in {10, 190} }

\* the 'AS' payload: five columns of equal length
AsPayload(obs) ==
    [easts |-> Column(obs, "east"), norths |-> Column(obs, "north"),
     majors |-> Column(obs, "major"), minors |-> Column(obs, "minor"),
     pas |-> Column(obs, "pa")]

\* one radial-velocity observation: phase in hundredths of a period, in
\* [0, 1), with its velocity and uncertainty
RvObservations ==
    { [phase |-> p, rv |-> v[1], err |-> v[2]] :
        p \in {0, 15, 16, 84, 85, 99}, v \in {<<-3, 1>>, <<4, 2>>} }

\* an 'RV1' or 'RV2' payload: three columns of equal length
RvPayload(obs) ==
    [phases |-> Column(obs, "phase"), rv |-> Column(obs, "rv"),
     err |-> Column(obs, "err")]

RvSample ==
    RvPayload(<<[phase |-> 90, rv |-> 7, err |-> 1],
                [phase |-> 40, rv |-> -7, err |-> 3]>>)

AsSample ==
    AsPayload(<<[east |-> 1, north |-> 2, major |-> 2, minor |-> 1,
                 pa |-> 10]>>)

Item(key, data) == [key |-> key, data |-> data]

----------------------------------------------------------------------------
(* numpy and builtins *)

\* 2 * array
Twice(a) == [k \in 1 .. Len(a) |-> 2 * a[k]]

\* MinusNinety with the position angle used as the rotation
PositionAngleAsRotation(a) == a

\* array - 90
MinusNinety(a) == [k \in 1 .. Len(a) |-> a[k] - 90]

\* np.column_stack((a, b))
ColumnStack(a, b) == [k \in 1 .. Len(a) |-> <<a[k], b[k]>>]

\* the builtin min of a non-empty sequence
RECURSIVE PyMin(_)
PyMin(a) ==
    IF Len(a) = 1 THEN a[1]
    ELSE LET m == PyMin(Tail(a)) IN IF m < a[1] THEN m ELSE a[1]

\* the builtin max of a non-empty sequence
RECURSIVE PyMax(_)
PyMax(a) ==
    IF Len(a) = 1 THEN a[1]
    ELSE LET m == PyMax(Tail(a)) IN IF m > a[1] THEN m ELSE a[1]

----------------------------------------------------------------------------
(* plot_as_data *)

\* EllipseCollection(widths, heights, angles, offsets=...)
EllipseCollection(widths, heights, angles, offsets) ==
    [widths |-> widths, heights |-> heights, angles |-> angles,
     offsets |-> offsets]

\* asax.add_collection(ellipses)
AddCollection(ax, c) == [ax EXCEPT !.collections = Append(@, c)]

\* SetLimits with the east axis not reversed
SetLimitsSameOrder(ax, plotmin, plotmax) ==
    [ax EXCEPT !.xlim = <<plotmin - 5, plotmax + 5>>,
               !.ylim = <<plotmin - 5, plotmax + 5>>]

\* asax.set_xlim([plotmax + 5, plotmin - 5]);
\* asax.set_ylim([plotmin - 5, plotmax + 5])
SetLimits(ax, plotmin, plotmax) ==
    [ax EXCEPT !.xlim = <<plotmax + 5, plotmin - 5>>,
               !.ylim = <<plotmin - 5, plotmax + 5>>]

\* ax.axis(mode)
AxisMode(ax, mode) == [ax EXCEPT !.mode = mode]

\* the body of the loop of plot_as_data for an 'AS' item: the data points
\* and the ellipses are added first; min() of an empty sequence then raises
\* ValueError
PlotAsItem(ax, data) ==
    LET a1 == AxPlot(ax, data.easts, data.norths, "r.")
        ellipses ==
            EllipseCollection(Twice(data.majors), Twice(data.minors),
                              MinusNinety(data.pas),
                              ColumnStack(data.easts, data.norths))
        a2 == AddCollection(a1, ellipses)
    IN  IF data.easts = <<>> \/ data.norths = <<>> THEN
            [outcome |-> "ValueError", asax |-> a2]
        ELSE
            LET plotmin ==
                    PyMin(<<PyMin(data.easts), PyMin(data.norths)>>)
                plotmax ==
                    PyMax(<<PyMax(data.easts), PyMax(data.norths)>>)
            IN  [outcome |-> "returned",
                 asax |-> AxisMode(SetLimits(a2, plotmin, plotmax), "image")]

\* plot_as_data(asax, datadict): the loop over the items
RECURSIVE PlotAsData(_, _)
PlotAsData(ax, items) ==
    IF items = <<>> THEN [outcome |-> "returned", asax |-> ax]
    ELSE IF Head(items).key = "AS" THEN
        LET r == PlotAsItem(ax, Head(items).data)
        IN  IF r.outcome # "returned" THEN r
            ELSE PlotAsData(r.asax, Tail(items))
    ELSE PlotAsData(ax, Tail(items))

PlotAsDataCall ==
    /\ outcome = "none"
    /\ LET r == PlotAsData(asax, datadict)
       IN  /\ asax' = r.asax
           /\ outcome' = r.outcome
    /\ UNCHANGED <<system, datadict, mcmcresult, rvax, rv1dot, rv2dot, asdot,
                   phase, entry, afterRaise, corner>>

\* the dictionaries handed to plot_as_data, for an 'AS' payload d: with and
\* without the key 'AS', alone and after another key
AsDataDicts(d) ==
    { <<>>, <<Item("RV1", RvSample)>>, <<Item("AS", d)>>,
      <<Item("RV1", RvSample), Item("AS", d)>> }

InitAs ==
    /\ system \in { s \in Systems : s.undefined = {} /\ s.a = 4 }
    /\ \E n \in 0 .. MaxObs :
         \E obs \in [1 .. n -> AsObservations] :
            datadict \in AsDataDicts(AsPayload(obs))
    /\ mcmcresult = [var_names |-> <<>>, params |-> <<>>]
    /\ rvax = RvAxis
    /\ asax = AsAxis
    /\ rv1dot = None
    /\ rv2dot = None
    /\ asdot = None
    /\ phase = 0
    /\ entry = <<None, None, None>>
    /\ outcome = "none"
    /\ afterRaise = FALSE
    /\ corner = [labels |-> <<>>, truths |-> <<>>]

NextAs == PlotAsDataCall

SpecAs == InitAs /\ [][NextAs]_vars

----------------------------------------------------------------------------
(* plot_rv_data *)

\* the replicas of one observation at p - 1, p and p + 1 that fall inside
\* the window [-m, 1 + m]
Replicas(p, m) ==
    SelectSeq(<<p - 100, p, p + 100>>, LAMBDA x : -m <= x /\ x <= 100 + m)

\* system.create_phase_extended_RV(rvdata, extension_range): the phases,
\* velocities and uncertainties of the replicas, observation by observation
RECURSIVE CreatePhaseExtendedRV(_, _, _)
CreatePhaseExtendedRV(sys, rvdata, m) ==
    IF rvdata.phases = <<>> THEN [phases |-> <<>>, rv |-> <<>>, err |-> <<>>]
    ELSE
        LET reps == Replicas(Head(rvdata.phases), m)
            rest == CreatePhaseExtendedRV(sys,
                        [phases |-> Tail(rvdata.phases),
                         rv |-> Tail(rvdata.rv), err |-> Tail(rvdata.err)], m)
        IN  [phases |-> reps \o rest.phases,
             rv |-> [k \in 1 .. Len(reps) |-> Head(rvdata.rv)] \o rest.rv,
             err |-> [k \in 1 .. Len(reps) |-> Head(rvdata.err)] \o rest.err]

\* the extension range plot_rv_data passes: 0.15
RvExtension == 15

\* rvax.errorbar(x, y, yerr=yerr, ..., color=color)
Errorbar(ax, x, y, yerr, color) ==
    [ax EXCEPT !.containers =
        Append(@, [x |-> x, y |-> y, yerr |-> yerr, color |-> color])]

\* plot_rv_data(rvax, datadict, system): the loop over the items
RECURSIVE PlotRvData(_, _, _)
PlotRvData(ax, items, sys) ==
    IF items = <<>> THEN ax
    ELSE
        LET key == Head(items).key
        IN  IF key = "RV1" \/ key = "RV2" THEN
                LET ext == CreatePhaseExtendedRV(sys, Head(items).data,
                                                 RvExtension)
                    color == IF key = "RV1" THEN "blue" ELSE "red"
                    a1 == Errorbar(ax, ext.phases, ext.rv, ext.err, color)
                IN  PlotRvData(AxisMode(a1, "auto"), Tail(items), sys)
            ELSE PlotRvData(ax, Tail(items), sys)

PlotRvDataCall ==
    /\ outcome = "none"
    /\ rvax' = PlotRvData(rvax, datadict, system)
    /\ outcome' = "returned"
    /\ UNCHANGED <<system, datadict, mcmcresult, asax, rv1dot, rv2dot, asdot,
                   phase, entry, afterRaise, corner>>

\* the dictionaries handed to plot_rv_data, for an RV payload d: under
\* either key, alone and with the other keys before or after it
RvDataDicts(d) ==
    { <<>>, <<Item("AS", AsSample)>>, <<Item("RV1", d)>>, <<Item("RV2", d)>>,
      <<Item("RV1", d), Item("RV2", RvSample)>>,
      <<Item("AS", AsSample), Item("RV2", d), Item("RV1", RvSample)>> }

InitRv ==
    /\ system \in { s \in Systems : s.undefined = {} /\ s.a = 4 }
    /\ \E n \in 0 .. MaxRvObs :
         \E obs \in [1 .. n -> RvObservations] :
            datadict \in RvDataDicts(RvPayload(obs))
    /\ mcmcresult = [var_names |-> <<>>, params |-> <<>>]
    /\ rvax = RvAxis
    /\ asax = AsAxis
    /\ rv1dot = None
    /\ rv2dot = None
    /\ asdot = None
    /\ phase = 0
    /\ entry = <<None, None, None>>
    /\ outcome = "none"
    /\ afterRaise = FALSE
    /\ corner = [labels |-> <<>>, truths |-> <<>>]

NextRv == PlotRvDataCall

SpecRv == InitRv /\ [][NextRv]_vars

----------------------------------------------------------------------------
(* plot_corner_diagram *)

\* the labels the if/elif chain appends for `key`: one for a recognised
\* name, none for any other name
CornerLabels(key) ==
    CASE key = "e" -> <<"$e$">>
      [] key = "i" -> <<"$i$ (deg)">>
      [] key = "omega" -> <<"$\\omega$ (deg)">>
      [] key = "Omega" -> <<"$\\Omega$ (deg)">>
      [] key = "t0" -> <<"$T_0$ (MJD)">>
      [] key = "k1" -> <<"$K_1$ (km/s)">>
      [] key = "k2" -> <<"$K_2$ (km/s)">>
      [] key = "p" -> <<"$P$ (d)">>
      [] key = "gamma1" -> <<"$\\gamma_1$ (km/s)">>
      [] key = "gamma2" -> <<"$\\gamma_2$ (km/s)">>
      [] key = "d" -> <<"$d$ (pc)">>
      [] OTHER -> <<>>

\* Thruths with the value appended for every parameter
ThruthsOfAll(params, key) == <<params[key].value>>

\* what `if mcmcresult.params[key].vary:
\*           thruths.append(mcmcresult.params.valuesdict()[key])` appends
Thruths(params, key) ==
    IF params[key].vary THEN <<params[key].value>> ELSE <<>>

\* the loop of plot_corner_diagram over var_names, from the lists built so
\* far
RECURSIVE CornerLoop(_, _, _, _)
CornerLoop(labels, thruths, names, params) ==
    IF names = <<>> THEN [labels |-> labels, truths |-> thruths]
    ELSE CornerLoop(labels \o CornerLabels(Head(names)),
                    thruths \o Thruths(params, Head(names)),
                    Tail(names), params)

\* plot_corner_diagram(mcmcresult): the labels and truths handed to
\* corner.corner
PlotCornerDiagram(result) ==
    CornerLoop(<<>>, <<>>, result.var_names, result.params)

PlotCornerDiagramCall ==
    /\ outcome = "none"
    /\ corner' = PlotCornerDiagram(mcmcresult)
    /\ outcome' = "returned"
    /\ UNCHANGED <<system, datadict, mcmcresult, rvax, asax, rv1dot, rv2dot,
                   asdot, phase, entry, afterRaise>>

RecognisedNames ==
    {"e", "i", "omega", "Omega", "t0", "k1", "k2", "p", "gamma1", "gamma2",
     "d"}

\* the names a fit result may declare: the recognised ones and one more
ParameterNames == RecognisedNames \cup {"q"}

\* the current value of each parameter (e in tenths)
CurrentValue(name) ==
    CASE name = "e" -> 3
      [] name = "i" -> 60
      [] name = "omega" -> 120
      [] name = "Omega" -> 45
      [] name = "t0" -> 5000
      [] name = "k1" -> 20
      [] name = "k2" -> 30
      [] name = "p" -> 100
      [] name = "gamma1" -> -5
      [] name = "gamma2" -> -6
      [] name = "d" -> 1000
      [] OTHER -> 1

\* the lists of distinct names of length at most n
RECURSIVE NameLists(_)
NameLists(n) ==
    IF n = 0 THEN {<<>>}
    ELSE LET shorter == NameLists(n - 1)
         IN  shorter \cup
             UNION { { Append(q, x) : x \in ParameterNames \ Range(q) } :
                       q \in shorter }

\* a fit result: the declared names in order, and for each its value and
\* whether it is free to vary
FitResult(names, free) ==
    [var_names |-> names,
     params |-> [k \in Range(names) |->
                   [value |-> CurrentValue(k), vary |-> k \in free]]]

InitCorner ==
    /\ system \in { s \in Systems : s.undefined = {} /\ s.a = 4 }
    /\ datadict = <<>>
    /\ \E names \in NameLists(MaxParams) :
         \E free \in SUBSET Range(names) :
            mcmcresult = FitResult(names, free)
    /\ rvax = RvAxis
    /\ asax = AsAxis
    /\ rv1dot = None
    /\ rv2dot = None
    /\ asdot = None
    /\ phase = 0
    /\ entry = <<None, None, None>>
    /\ outcome = "none"
    /\ afterRaise = FALSE
    /\ corner = [labels |-> <<>>, truths |-> <<>>]

NextCorner == PlotCornerDiagramCall

SpecCorner == InitCorner /\ [][NextCorner]_vars

----------------------------------------------------------------------------
(* Properties of plot_dots *)

\* the three markers: 1 the RV1 dot, 2 the RV2 dot, 3 the sky dot
Markers == 1 .. 3

Handles == <<rv1dot, rv2dot, asdot>>

MarkerAxis(m) == IF m = 3 THEN asax ELSE rvax

MarkerFmt(m) == <<"rx", "bx", "ro">>[m]

\* the number of artists ever created for marker m
Created(m) ==
    Cardinality({ k \in 1 .. Len(MarkerAxis(m).lines) :
                    MarkerAxis(m).lines[k].fmt = MarkerFmt(m) })

\* marker m is Bound and drawn where the model puts it at phase q
Shows(m, q) ==
    LET h == Handles[m]
        line == MarkerAxis(m).lines[h]
        rv1 == PrimaryRV(system, q)
        rv2 == SecondaryRV(system, q)
        N == NorthOfPh(system, q)
        E == EastOfPh(system, q)
    IN  /\ h \in 1 .. Len(MarkerAxis(m).lines)
        /\ line.fmt = MarkerFmt(m)
        /\ CASE m = 1 -> rv1.ok /\ line.xdata = q /\ line.ydata = rv1.val
             [] m = 2 -> rv2.ok /\ line.xdata = q /\ line.ydata = rv2.val
             [] m = 3 -> N.ok /\ E.ok /\ line.xdata = E.val
                         /\ line.ydata = N.val

\* C1: whenever plot_dots returns, each of the three handles it returns is
\* Bound to an artist of its axis, whether the handle was Unbound or Bound
\* on entry; no call turns a Bound handle into an Unbound one.
C1_HandlesBoundOnReturn ==
    \A m \in Markers :
        /\ outcome = "returned" =>
              /\ Handles[m] # None
              /\ Handles[m] \in 1 .. Len(MarkerAxis(m).lines)
              /\ MarkerAxis(m).lines[Handles[m]].fmt = MarkerFmt(m)
        /\ entry[m] # None => Handles[m] # None

C1_Witness ==
    /\ outcome = "returned"
    /\ \A m \in Markers : entry[m] # None /\ Handles[m] # None

\* C2: a plot_dots call given a Bound handle for a marker returns that same
\* artist and creates no artist for that marker; and as long as every call
\* was fed the triple returned by the call before it, at most one artist
\* per marker has been created.
C2_RepositionedNotReplaced ==
    /\ [][\A m \in Markers :
            Handles[m] # None =>
                /\ Handles'[m] = Handles[m]
                /\ Created(m)' = Created(m)]_vars
    /\ [](~afterRaise => \A m \in Markers : Created(m) <= 1)

C2_Witness ==
    /\ outcome = "returned"
    /\ ~afterRaise
    /\ \A m \in Markers : entry[m] # None /\ Handles[m] = entry[m]
    /\ \A m \in Markers : Created(m) = 1
    /\ phase = 2

\* C3: once a plot_dots call has ended, by returning or by raising, all
\* Bound markers show the position of one and the same phase.
C3_SamePhase ==
    outcome # "none" =>
        \E q \in Phases :
            \A m \in Markers : Handles[m] # None => Shows(m, q)

\* C4: after plot_dots(phase) has returned, each of the three markers is at
\* the position the model gives for that phase, whatever the handles were
\* on entry and whatever the earlier calls did.
C4_PositionOfPhase ==
    outcome = "returned" => \A m \in Markers : Shows(m, phase)

C4_Witness ==
    /\ outcome = "returned"
    /\ afterRaise
    /\ \A m \in Markers : entry[m] # None
    /\ phase = 1

----------------------------------------------------------------------------
(* Properties of plot_as_data *)

HasKey(key) == \E k \in 1 .. Len(datadict) : datadict[k].key = key

\* the payload stored under `key`
DataOf(key) ==
    datadict[CHOOSE k \in 1 .. Len(datadict) : datadict[k].key = key].data

\* every east and north value of the 'AS' payload
AsCoordinates == Range(DataOf("AS").easts) \cup Range(DataOf("AS").norths)

Least(S) == CHOOSE v \in S : \A w \in S : v <= w

Greatest(S) == CHOOSE v \in S : \A w \in S : v >= w

\* the payload of the worked example: easts=[1,-1], norths=[2,-2],
\* majors=[0.1,0.1], minors=[0.05,0.05], pas=[10,190]
ExamplePayload ==
    [easts |-> <<1, -1>>, norths |-> <<2, -2>>, majors |-> <<2, 2>>,
     minors |-> <<1, 1>>, pas |-> <<10, 190>>]

\* C7: an 'AS' payload with zero observations is rejected with a
\* configuration error (min/max is never applied to it) and the axis is
\* left as it was: no line, no collection, the limits unchanged.
C7_EmptyPayloadRejected ==
    (outcome # "none" /\ HasKey("AS") /\ DataOf("AS").easts = <<>>) =>
        /\ outcome = "ConfigurationError"
        /\ asax = AsAxis

C9_OneEllipsePerObservation ==
    (outcome # "none" /\ HasKey("AS") /\ DataOf("AS").easts # <<>>) =>
        LET d == DataOf("AS")
            n == Len(d.easts)
        IN  /\ Len(asax.collections) = 1
            /\ LET c == asax.collections[1]
               IN  /\ Len(c.widths) = n
                   /\ Len(c.heights) = n
                   /\ Len(c.angles) = n
                   /\ Len(c.offsets) = n
                   /\ \A k \in 1 .. n :
                        /\ c.offsets[k] = <<d.easts[k], d.norths[k]>>
                        /\ c.widths[k] = d.majors[k] + d.majors[k]
                        /\ c.heights[k] = d.minors[k] + d.minors[k]
                        /\ c.angles[k] + 90 = d.pas[k]

C9_Witness ==
    /\ outcome = "returned"
    /\ HasKey("AS")
    /\ DataOf("AS").pas = <<10, 190>>
    /\ Len(asax.collections) = 1
    /\ asax.collections[1].angles = <<-80, 100>>

----------------------------------------------------------------------------
(* Properties of plot_rv_data *)

\* the 'RV1' and 'RV2' items of datadict, in iteration order
RvItems == SelectSeq(datadict, LAMBDA it : it.key \in {"RV1", "RV2"})

\* point j of container c is a replica of observation k of payload d
ReplicaOf(c, j, d, k) ==
    /\ c.x[j] \in {d.phases[k], d.phases[k] - 100, d.phases[k] + 100}
    /\ c.y[j] = d.rv[k]
    /\ c.yerr[j] = d.err[k]

\* C10: for RV payloads with phases in [0, 1) plot_rv_data plots, per
\* payload, only replicas at p, p - 1 or p + 1 of its observations, each
\* with the observation's velocity and uncertainty; every plotted phase
\* lies in [-0.15, 1.15]; and every observation is plotted at least once.
C10_PhaseExtension ==
    outcome = "returned" =>
        /\ Len(rvax.containers) = Len(RvItems)
        /\ \A i \in 1 .. Len(RvItems) :
             LET c == rvax.containers[i]
                 d == RvItems[i].data
             IN  /\ Len(c.y) = Len(c.x)
                 /\ Len(c.yerr) = Len(c.x)
                 /\ \A j \in 1 .. Len(c.x) :
                      /\ -15 <= c.x[j]
                      /\ c.x[j] <= 115
                      /\ \E k \in 1 .. Len(d.phases) : ReplicaOf(c, j, d, k)
                 /\ \A k \in 1 .. Len(d.phases) :
                      \E j \in 1 .. Len(c.x) : ReplicaOf(c, j, d, k)

C10_Witness ==
    /\ outcome = "returned"
    /\ HasKey("RV1")
    /\ DataOf("RV1") =
         [phases |-> <<16, 85, 15>>, rv |-> <<-3, 4, 4>>, err |-> <<1, 2, 2>>]
    /\ rvax.containers[1].x = <<16, -15, 85, 15, 115>>
    /\ rvax.containers[1].y = <<-3, 4, 4, 4, 4>>
    /\ rvax.containers[1].yerr = <<1, 2, 2, 2, 2>>

----------------------------------------------------------------------------
(* Properties of plot_corner_diagram *)

\* the declared names that are free to vary, in declared order
FreeNames ==
    SelectSeq(mcmcresult.var_names, LAMBDA k : mcmcresult.params[k].vary)

\* C5: the truth list holds exactly the current values of the parameters
\* with vary=True, in their order in var_names: it is as long as there are
\* vary=True parameters, and no fixed parameter's value is in it.
C5_TruthsOfFreeParameters ==
    outcome = "returned" =>
        /\ Len(corner.truths) =
             Cardinality({ k \in DOMAIN mcmcresult.params :
                             mcmcresult.params[k].vary })
        /\ Len(corner.truths) = Len(FreeNames)
        /\ \A j \in 1 .. Len(FreeNames) :
             corner.truths[j] = mcmcresult.params[FreeNames[j]].value
        /\ \A k \in DOMAIN mcmcresult.params :
             ~mcmcresult.params[k].vary =>
                 mcmcresult.params[k].value \notin Range(corner.truths)

C5_Witness ==
    /\ outcome = "returned"
    /\ mcmcresult = FitResult(<<"e", "i", "omega">>, {"e", "omega"})
    /\ corner.truths = <<3, 120>>

\* C6: the label list has exactly one entry per name of var_names, the
\* i-th label belonging to the i-th name, and a name outside the
\* recognised set causes no failure.
C6_OneLabelPerName ==
    outcome # "none" =>
        /\ outcome = "returned"
        /\ Len(corner.labels) = Len(mcmcresult.var_names)
        /\ \A j \in 1 .. Len(mcmcresult.var_names) :
             mcmcresult.var_names[j] \in RecognisedNames =>
                 <<corner.labels[j]>> = CornerLabels(mcmcresult.var_names[j])

====
